---- MODULE Spec2Model ----
(***************************************************************************)
(* Remote-config synchronisation and caching layer of the ML model         *)
(* tracker: services/github.ts (settings store, result cache, fetch,       *)
(* config decoding, record normalisation) and the App component that       *)
(* drives it (loadModels and the settings / refresh handlers).             *)
(***************************************************************************)
EXTENDS Integers, Sequences, FiniteSets, TLC

(***************************************************************************)
(* JavaScript values.  Every value is a record whose first field t is its  *)
(* type tag; a number n/10 is carried as the integer n (one decimal        *)
(* digit), an object as a function from its own keys to values, an array   *)
(* as a sequence.                                                          *)
(***************************************************************************)
JUndef == [t |-> "undefined"]
JNull == [t |-> "null"]
JNum(n) == [t |-> "num", v |-> n]
JStr(s) == [t |-> "str", v |-> s]
JBool(b) == [t |-> "bool", v |-> b]
JArr(a) == [t |-> "arr", v |-> a]
JObj(o) == [t |-> "obj", v |-> o]

EmptyObject == <<>>

\* obj[key] = val on a plain object
SetKey(o, key, val) ==
    [k \in (DOMAIN o) \cup {key} |-> IF k = key THEN val ELSE o[k]]

\* v.k for a value that is not null or undefined
Get(v, k) ==
    IF v.t = "obj" /\ k \in DOMAIN v.v THEN v.v[k] ELSE JUndef

\* a property read of null or undefined raises a TypeError
IsNullish(v) == v.t \in {"null", "undefined"}

\* ToBoolean
Truthy(v) ==
    CASE v.t = "undefined" -> FALSE
      [] v.t = "null" -> FALSE
      [] v.t = "bool" -> v.v
      [] v.t = "num" -> v.v # 0
      [] v.t = "str" -> v.v # ""
      [] OTHER -> TRUE

\* a || b
Or(a, b) == IF Truthy(a) THEN a ELSE b

\* Number.prototype.toString for a number of tenths
NumToString(n) ==
    LET a == IF n < 0 THEN -n ELSE n
        sign == IF n < 0 THEN "-" ELSE ""
    IN  IF a % 10 = 0
        THEN sign \o ToString(a \div 10)
        ELSE sign \o ToString(a \div 10) \o "." \o ToString(a % 10)

RECURSIVE String(_)
RECURSIVE JoinComma(_)
\* Array.prototype.join(","): null and undefined elements give ""
JoinComma(a) ==
    IF a = <<>> THEN ""
    ELSE LET h == IF IsNullish(Head(a)) THEN "" ELSE String(Head(a))
         IN  IF Len(a) = 1 THEN h ELSE h \o "," \o JoinComma(Tail(a))

\* String(v)
String(v) ==
    CASE v.t = "undefined" -> "undefined"
      [] v.t = "null" -> "null"
      [] v.t = "bool" -> (IF v.v THEN "true" ELSE "false")
      [] v.t = "num" -> NumToString(v.v)
      [] v.t = "str" -> v.v
      [] v.t = "arr" -> JoinComma(v.v)
      [] OTHER -> "[object Object]"

(***************************************************************************)
(* Results of calls that may throw.                                        *)
(***************************************************************************)
NoError == [name |-> "", message |-> ""]
Error(msg) == [name |-> "Error", message |-> msg]
TypeError(msg) == [name |-> "TypeError", message |-> msg]
SyntaxError(msg) == [name |-> "SyntaxError", message |-> msg]

Return(v) == [ok |-> TRUE, val |-> v, err |-> NoError]
Throw(e) == [ok |-> FALSE, val |-> JUndef, err |-> e]

(***************************************************************************)
(* String primitives of the runtime (1-based positions; indexOf is 0 when  *)
(* the character does not occur).                                          *)
(***************************************************************************)
Char(s, i) == SubSeq(s, i, i)

IsSpace(c) == c \in {" ", "\t", "\r"}

\* s.trim()
trim(s) ==
    IF \A i \in 1..Len(s) : IsSpace(Char(s, i)) THEN ""
    ELSE LET first == CHOOSE i \in 1..Len(s) :
                        /\ ~IsSpace(Char(s, i))
                        /\ \A j \in 1..(i - 1) : IsSpace(Char(s, j))
             final == CHOOSE i \in 1..Len(s) :
                        /\ ~IsSpace(Char(s, i))
                        /\ \A j \in (i + 1)..Len(s) : IsSpace(Char(s, j))
         IN  SubSeq(s, first, final)

\* s.startsWith(p), s.endsWith(p)
startsWith(s, p) == Len(s) >= Len(p) /\ SubSeq(s, 1, Len(p)) = p
endsWith(s, p) == Len(s) >= Len(p) /\ SubSeq(s, Len(s) - Len(p) + 1, Len(s)) = p

\* s.indexOf(c) + 1
indexOf(s, c) ==
    IF \A i \in 1..Len(s) : Char(s, i) # c THEN 0
    ELSE CHOOSE i \in 1..Len(s) :
           /\ Char(s, i) = c
           /\ \A j \in 1..(i - 1) : Char(s, j) # c

\* s.slice(n)
slice(s, n) == SubSeq(s, n + 1, Len(s))

\* s.split(c)
RECURSIVE split(_, _)
split(s, c) ==
    LET i == indexOf(s, c)
    IN  IF i = 0 THEN <<s>>
        ELSE <<SubSeq(s, 1, i - 1)>> \o split(SubSeq(s, i + 1, Len(s)), c)

IsDigit(c) == c \in {"0", "1", "2", "3", "4", "5", "6", "7", "8", "9"}
DigitVal(c) == CHOOSE d \in 0..9 : ToString(d) = c
AllDigits(s) == s # "" /\ \A i \in 1..Len(s) : IsDigit(Char(s, i))

RECURSIVE ParseDigits(_)
ParseDigits(s) ==
    IF s = "" THEN 0
    ELSE ParseDigits(SubSeq(s, 1, Len(s) - 1)) * 10 + DigitVal(Char(s, Len(s)))

\* /^-?\d+(\.\d+)?$/.test(value)
IsNumberToken(value) ==
    LET body == IF startsWith(value, "-") THEN slice(value, 1) ELSE value
        dot == indexOf(body, ".")
    IN  IF dot = 0 THEN AllDigits(body)
        ELSE AllDigits(SubSeq(body, 1, dot - 1)) /\ AllDigits(slice(body, dot))

\* parseFloat(value) of a number token, in tenths (the first fractional
\* digit is kept: the tokens of this model carry at most one)
parseFloat(value) ==
    LET neg == startsWith(value, "-")
        body == IF neg THEN slice(value, 1) ELSE value
        dot == indexOf(body, ".")
        whole == IF dot = 0 THEN body ELSE SubSeq(body, 1, dot - 1)
        frac == IF dot = 0 THEN 0 ELSE DigitVal(Char(body, dot + 1))
        mag == ParseDigits(whole) * 10 + frac
    IN  IF neg THEN -mag ELSE mag

(***************************************************************************)
(* parseYamlValue: coercion of a scalar token.                             *)
(***************************************************************************)
parseYamlValue(value) ==
    IF value = "" THEN JStr("")
    ELSE IF (startsWith(value, "\"") /\ endsWith(value, "\""))
            \/ (startsWith(value, "'") /\ endsWith(value, "'"))
    THEN JStr(SubSeq(value, 2, Len(value) - 1))
    ELSE IF IsNumberToken(value) THEN JNum(parseFloat(value))
    ELSE IF value = "true" THEN JBool(TRUE)
    ELSE IF value = "false" THEN JBool(FALSE)
    ELSE IF value = "null" \/ value = "~" THEN JNull
    ELSE JStr(value)

(***************************************************************************)
(* parseYaml: the line scanner.  The loop state is                         *)
(*   result        the records pushed so far                               *)
(*   currentObject <<>> for null, <<o>> for the record being filled        *)
(*   currentNested <<>> for null, <<o>> for the open nested mapping        *)
(*   currentNestedKey  "" for null, else "metrics" or "files"              *)
(***************************************************************************)
YamlStart ==
    [result |-> <<>>, currentObject |-> <<>>, currentNested |-> <<>>,
     currentNestedKey |-> ""]

\* currentNested && currentNestedKey && Object.keys(currentNested).length > 0
NestedPending(st) ==
    /\ st.currentNested # <<>>
    /\ st.currentNestedKey # ""
    /\ DOMAIN st.currentNested[1] # {}

\* currentObject after  currentObject[currentNestedKey] = currentNested
\* when the nested mapping is pending, currentObject otherwise
WithNested(st) ==
    IF NestedPending(st)
    THEN SetKey(st.currentObject[1], st.currentNestedKey, JObj(st.currentNested[1]))
    ELSE st.currentObject[1]

\* the branch  if (trimmed.startsWith("- "))
YamlNewItem(st, trimmed) ==
    LET pushed == IF st.currentObject # <<>>
                  THEN Append(st.result, WithNested(st))
                  ELSE st.result
        afterDash == trim(slice(trimmed, 2))
        parts == split(afterDash, ":")
        key == parts[1]
        rest == IF Len(parts) > 1 THEN slice(afterDash, Len(key) + 1) ELSE ""
        obj == IF afterDash # "" /\ key # "" /\ Len(parts) > 1
               THEN SetKey(EmptyObject, trim(key), parseYamlValue(trim(rest)))
               ELSE EmptyObject
    IN  [result |-> pushed, currentObject |-> <<obj>>, currentNested |-> <<>>,
         currentNestedKey |-> ""]

\* variant: the indentation of the line is not looked at
YamlProperty_anyIndent(st, line, trimmed) ==
    LET colonIndex == indexOf(trimmed, ":")
        key == trim(SubSeq(trimmed, 1, colonIndex - 1))
        value == trim(slice(trimmed, colonIndex))
    IN  IF (key = "metrics" \/ key = "files") /\ value = ""
        THEN [st EXCEPT !.currentObject = <<WithNested(st)>>,
                        !.currentNestedKey = key,
                        !.currentNested = <<EmptyObject>>]
        ELSE IF st.currentNested # <<>> /\ st.currentNestedKey # ""
        THEN [st EXCEPT !.currentNested =
                  <<SetKey(st.currentNested[1], key, parseYamlValue(value))>>]
        ELSE [st EXCEPT !.currentObject =
                  <<SetKey(st.currentObject[1], key, parseYamlValue(value))>>]

\* the branch  if (currentObject && trimmed.includes(":"))
YamlProperty(st, line, trimmed) ==
    LET colonIndex == indexOf(trimmed, ":")
        key == trim(SubSeq(trimmed, 1, colonIndex - 1))
        value == trim(slice(trimmed, colonIndex))
    IN  IF (key = "metrics" \/ key = "files") /\ value = ""
        THEN [st EXCEPT !.currentObject = <<WithNested(st)>>,
                        !.currentNestedKey = key,
                        !.currentNested = <<EmptyObject>>]
        ELSE IF /\ st.currentNested # <<>>
                /\ st.currentNestedKey # ""
                /\ (startsWith(line, "      ") \/ startsWith(line, "    "))
        THEN [st EXCEPT !.currentNested =
                  <<SetKey(st.currentNested[1], key, parseYamlValue(value))>>]
        ELSE IF NestedPending(st)
        THEN [st EXCEPT !.currentObject =
                  <<SetKey(WithNested(st), key, parseYamlValue(value))>>,
                        !.currentNested = <<>>,
                        !.currentNestedKey = ""]
        ELSE [st EXCEPT !.currentObject =
                  <<SetKey(st.currentObject[1], key, parseYamlValue(value))>>]

\* variant: a key: value line met before any record starts one
YamlLine_startsRecord(st, line) ==
    LET trimmed == trim(line)
    IN  IF trimmed = "" \/ startsWith(trimmed, "#") THEN st
        ELSE IF startsWith(trimmed, "- ") THEN YamlNewItem(st, trimmed)
        ELSE IF indexOf(trimmed, ":") # 0
        THEN YamlProperty([st EXCEPT !.currentObject =
                               IF st.currentObject = <<>> THEN <<EmptyObject>>
                               ELSE st.currentObject],
                          line, trimmed)
        ELSE st

\* one iteration of  for (const line of lines)
YamlLine(st, line) ==
    LET trimmed == trim(line)
    IN  IF trimmed = "" \/ startsWith(trimmed, "#") THEN st
        ELSE IF startsWith(trimmed, "- ") THEN YamlNewItem(st, trimmed)
        ELSE IF st.currentObject # <<>> /\ indexOf(trimmed, ":") # 0
        THEN YamlProperty(st, line, trimmed)
        ELSE st

RECURSIVE YamlLoop(_, _)
YamlLoop(st, lines) ==
    IF lines = <<>> THEN st
    ELSE YamlLoop(YamlLine(st, Head(lines)), Tail(lines))

RECURSIVE AsObjects(_)
AsObjects(maps) ==
    IF maps = <<>> THEN <<>>
    ELSE <<JObj(Head(maps))>> \o AsObjects(Tail(maps))

parseYaml(content) ==
    LET st == YamlLoop(YamlStart, split(content, "\n"))
        result == IF st.currentObject # <<>>
                  THEN Append(st.result, WithNested(st))
                  ELSE st.result
    IN  JArr(AsObjects(result))

(***************************************************************************)
(* State.                                                                  *)
(*   localStorage      the two persisted keys; <<>> is an absent item,     *)
(*                     <<v>> an item whose text decodes to v               *)
(*   now               Date.now()                                          *)
(*   calls             fetchModelsFromGitHub invocations suspended on the  *)
(*                     network, one network request each                   *)
(*   mounted, models, connectionStatus, connectionError, isLoading         *)
(*                     the App component                                   *)
(*   last              what the latest step did when it ran a part of      *)
(*                     fetchModelsFromGitHub or loadModels(null), as the   *)
(*                     caller and the network saw it; NoEvent otherwise    *)
(*   input, output     argument and result of the decoding functions when  *)
(*                     they are exercised on their own                     *)
(***************************************************************************)
VARIABLES localStorage, now, calls, mounted, models, connectionStatus,
          connectionError, isLoading, last, input, output

vars == <<localStorage, now, calls, mounted, models, connectionStatus,
          connectionError, isLoading, last, input, output>>

SETTINGS_KEY == "github_settings"
CACHE_KEY == "github_cache"
CACHE_TTL == 5 * 60 * 1000

\* new Date(t).toISOString() and new Date(s).getTime()
toISOString(t) == "T+" \o ToString(t)
getTime(s) == ParseDigits(slice(s, 2))

(***************************************************************************)
(* JSON.parse(JSON.stringify(v)): members whose value is undefined are     *)
(* dropped, undefined array elements become null.                          *)
(***************************************************************************)
RECURSIVE JSONclone(_)
RECURSIVE JSONcloneAll(_)
JSONcloneAll(a) ==
    IF a = <<>> THEN <<>>
    ELSE <<IF Head(a).t = "undefined" THEN JNull ELSE JSONclone(Head(a))>>
         \o JSONcloneAll(Tail(a))

JSONclone(v) ==
    CASE v.t = "arr" -> JArr(JSONcloneAll(v.v))
      [] v.t = "obj" ->
           LET keep == {k \in DOMAIN v.v : v.v[k].t # "undefined"}
           IN  JObj([k \in keep |-> JSONclone(v.v[k])])
      [] OTHER -> v

(***************************************************************************)
(* validateStatus, normalizeModel, parseConfigFile.                        *)
(***************************************************************************)
validStatuses == {"development", "staging", "production", "archived"}

\* variant: every string is taken for a status
validateStatus_anyString(status) ==
    IF status.t = "str" THEN JStr(status.v) ELSE JStr("development")

validateStatus(status) ==
    IF status.t = "str" /\ status.v \in validStatuses
    THEN JStr(status.v)
    ELSE JStr("development")

\* variant: the number is tested for truth, so that 0 is dropped
NumberOrUndefined_truthy(v) == IF v.t = "num" /\ v.v # 0 THEN v ELSE JUndef

\* typeof v === "number" ? v : undefined   and the same for "string"
NumberOrUndefined(v) == IF v.t = "num" THEN v ELSE JUndef

\* variant: a value that is not a string is converted instead of dropped
StringOrUndefined_converts(v) == IF v = JUndef THEN JUndef ELSE JStr(String(v))

StringOrUndefined(v) == IF v.t = "str" THEN v ELSE JUndef

\* index is the 0-based position of item in the list
normalizeModel(item, index) ==
    IF IsNullish(item)
    THEN Throw(TypeError("Cannot read properties of " \o String(item)))
    ELSE LET obj == item
             nowIso == JStr(toISOString(now))
             filesObj == Get(obj, "files")
             metricsObj == Get(obj, "metrics")
         IN  Return(JObj([
               id |-> JStr(String(Or(Get(obj, "id"),
                                     JStr("model-" \o ToString(index))))),
               name |-> JStr(String(Or(Get(obj, "name"), JStr("Unnamed Model")))),
               version |-> JStr(String(Or(Get(obj, "version"), JStr("1.0.0")))),
               description |-> JStr(String(Or(Get(obj, "description"), JStr("")))),
               framework |-> JStr(String(Or(Get(obj, "framework"), JStr("Unknown")))),
               status |-> validateStatus(Get(obj, "status")),
               owner |-> JStr(String(Or(Get(obj, "owner"), JStr("Unknown")))),
               createdAt |-> JStr(String(Or(Or(Get(obj, "createdAt"),
                                               Get(obj, "created_at")), nowIso))),
               updatedAt |-> JStr(String(Or(Or(Get(obj, "updatedAt"),
                                               Get(obj, "updated_at")), nowIso))),
               metrics |->
                 IF Truthy(metricsObj)
                 THEN JObj([accuracy |-> NumberOrUndefined(Get(metricsObj, "accuracy")),
                            latency |-> NumberOrUndefined(Get(metricsObj, "latency"))])
                 ELSE JUndef,
               files |->
                 IF Truthy(filesObj)
                 THEN JObj([modelCard |-> StringOrUndefined(Get(filesObj, "modelCard")),
                            trainingScript |-> StringOrUndefined(Get(filesObj, "trainingScript")),
                            featureScript |-> StringOrUndefined(Get(filesObj, "featureScript")),
                            inferenceScript |-> StringOrUndefined(Get(filesObj, "inferenceScript")),
                            modelFile |-> StringOrUndefined(Get(filesObj, "modelFile"))])
                 ELSE JUndef]))

\* modelsArray.map((item, index) => normalizeModel(item, index)): the first
\* element that throws ends the map
RECURSIVE MapNormalize(_, _)
MapNormalize(items, index) ==
    IF items = <<>> THEN Return(JArr(<<>>))
    ELSE LET head == normalizeModel(Head(items), index)
         IN  IF ~head.ok THEN head
             ELSE LET rest == MapNormalize(Tail(items), index + 1)
                  IN  IF ~rest.ok THEN rest
                      ELSE Return(JArr(<<head.val>> \o rest.val.v))

\* A fetched file: its text, and what JSON.parse makes of that text
\* (NotJson when it raises a SyntaxError).
NotJson == [t |-> "notjson"]
JSONparse(content) ==
    IF content.json = NotJson
    THEN Throw(SyntaxError("Unexpected token"))
    ELSE Return(content.json)

\* modelsArray.map(...) once modelsArray is known to be an array
NormalizeAll(modelsArray) ==
    IF modelsArray.t # "arr"
    THEN Throw(Error("Config file must contain an array of models"))
    ELSE MapNormalize(modelsArray.v, 0)

\* Array.isArray(data) ? data : data.models, and what follows
ExtractModels(data) ==
    IF ~data.ok THEN data
    ELSE IF data.val.t = "arr" THEN NormalizeAll(data.val)
    ELSE IF IsNullish(data.val)
    THEN Throw(TypeError("Cannot read properties of " \o String(data.val)))
    ELSE NormalizeAll(Get(data.val, "models"))

\* variant: the decoder is chosen by looking at the content
parseConfigFile_sniffsContent(content, path) ==
    ExtractModels(IF content.json = NotJson
                  THEN Return(parseYaml(content.text))
                  ELSE JSONparse(content))

parseConfigFile(content, path) ==
    ExtractModels(IF endsWith(path, ".yaml") \/ endsWith(path, ".yml")
                  THEN Return(parseYaml(content.text))
                  ELSE JSONparse(content))

(***************************************************************************)
(* Settings store and result cache over localStorage.  Each operator takes *)
(* the storage it runs on and, when it writes, gives the storage it        *)
(* leaves.                                                                 *)
(***************************************************************************)
getSettings(ls) == ls[SETTINGS_KEY]

saveSettings(ls, settings) ==
    [ls EXCEPT ![SETTINGS_KEY] = <<settings>>, ![CACHE_KEY] = <<>>]

clearSettings(ls) ==
    [ls EXCEPT ![SETTINGS_KEY] = <<>>, ![CACHE_KEY] = <<>>]

\* variant: the item is left in place
invalidateCache_keeps(ls) == ls

invalidateCache(ls) ==
    [ls EXCEPT ![CACHE_KEY] = <<>>]

\* variant: an entry expires as soon as its age reaches the TTL
getCache_expiresAtTtl(ls) ==
    LET stored == ls[CACHE_KEY]
    IN  IF stored = <<>> THEN <<>>
        ELSE IF now - getTime(Get(stored[1], "lastFetched").v) >= CACHE_TTL
        THEN <<>> ELSE stored

\* variant: the age of the entry is not looked at
getCache_neverExpires(ls) == ls[CACHE_KEY]

\* <<>> for null, <<cache>> for the stored entry when it has not expired
getCache(ls) ==
    LET stored == ls[CACHE_KEY]
    IN  IF stored = <<>> THEN <<>>
        ELSE LET cache == stored[1]
                 lastFetched == getTime(Get(cache, "lastFetched").v)
             IN  IF now - lastFetched > CACHE_TTL THEN <<>> ELSE <<cache>>

\* variant: an entry already stored is kept
setCache_keepsOld(ls, list, repoUrl) ==
    IF ls[CACHE_KEY] # <<>> THEN ls
    ELSE [ls EXCEPT ![CACHE_KEY] =
            <<JSONclone(JObj([models |-> list,
                              lastFetched |-> JStr(toISOString(now)),
                              repoUrl |-> JStr(repoUrl)]))>>]

\* variant: the fields of a stored entry are updated one by one, the
\* identity only when none is stored
setCache_mergesFields(ls, list, repoUrl) ==
    IF ls[CACHE_KEY] = <<>>
    THEN [ls EXCEPT ![CACHE_KEY] =
            <<JSONclone(JObj([models |-> list,
                              lastFetched |-> JStr(toISOString(now)),
                              repoUrl |-> JStr(repoUrl)]))>>]
    ELSE [ls EXCEPT ![CACHE_KEY] =
            <<JSONclone(JObj([models |-> list,
                              lastFetched |-> JStr(toISOString(now)),
                              repoUrl |-> Get(ls[CACHE_KEY][1], "repoUrl")]))>>]

setCache(ls, list, repoUrl) ==
    LET cache == JObj([models |-> list,
                       lastFetched |-> JStr(toISOString(now)),
                       repoUrl |-> JStr(repoUrl)])
    IN  [ls EXCEPT ![CACHE_KEY] = <<JSONclone(cache)>>]

(***************************************************************************)
(* fetchModelsFromGitHub, in its two synchronous parts: up to the network  *)
(* request (fetchBegin) and from the response on (fetchEnd).  Nothing is   *)
(* read or written between  await fetch(...)  and  await response.json(),  *)
(* so both suspensions are one.                                            *)
(***************************************************************************)
RepoUrl(settings) == settings.repoOwner \o "/" \o settings.repoName

RequestOf(settings) ==
    [url |-> "https://api.github.com/repos/" \o settings.repoOwner \o "/"
             \o settings.repoName \o "/contents/" \o settings.configPath
             \o "?ref=" \o settings.branch,
     authorization |-> IF settings.token # "" THEN "Bearer " \o settings.token
                       ELSE ""]

\* variant: the identity of the entry is not compared
fetchBegin_anyRepo(ls, settings) ==
    IF getCache(ls) # <<>>
    THEN [hit |-> TRUE, value |-> Get(getCache(ls)[1], "models"),
          sent |-> <<>>, storage |-> ls]
    ELSE [hit |-> FALSE, value |-> JUndef,
          sent |-> <<RequestOf(settings)>>, storage |-> ls]

\* variant: an entry that is not used is removed
fetchBegin_dropsUnused(ls, settings) ==
    IF getCache(ls) # <<>>
       /\ Get(getCache(ls)[1], "repoUrl") = JStr(RepoUrl(settings))
    THEN [hit |-> TRUE, value |-> Get(getCache(ls)[1], "models"),
          sent |-> <<>>, storage |-> ls]
    ELSE [hit |-> FALSE, value |-> JUndef,
          sent |-> <<RequestOf(settings)>>, storage |-> invalidateCache(ls)]

\* hit: the cached list is returned, nothing is sent and nothing stored
fetchBegin(ls, settings) ==
    LET repoUrl == RepoUrl(settings)
        cached == getCache(ls)
    IN  IF cached # <<>> /\ Get(cached[1], "repoUrl") = JStr(repoUrl)
        THEN [hit |-> TRUE, value |-> Get(cached[1], "models"),
              sent |-> <<>>, storage |-> ls]
        ELSE [hit |-> FALSE, value |-> JUndef,
              sent |-> <<RequestOf(settings)>>, storage |-> ls]

ResponseOk(response) == response.status >= 200 /\ response.status <= 299

\* variant: a config that cannot be decoded clears the cache
StoreParsed_clearsOnFailure(ls, settings, parsed) ==
    IF ~parsed.ok
    THEN [result |-> parsed, storage |-> invalidateCache(ls)]
    ELSE [result |-> parsed,
          storage |-> setCache(ls, parsed.val, RepoUrl(settings))]

\* setCache(parsed, repoUrl); return parsed  -- or the failure of
\* parseConfigFile passed on
StoreParsed(ls, settings, parsed) ==
    IF ~parsed.ok
    THEN [result |-> parsed, storage |-> ls]
    ELSE [result |-> parsed,
          storage |-> setCache(ls, parsed.val, RepoUrl(settings))]

\* variant: 401 and 403 are taken for each other
StatusError_swapped(settings, status) ==
    IF status = 404
    THEN Error("Config file not found: " \o settings.configPath)
    ELSE IF status = 403
    THEN Error("Invalid GitHub token")
    ELSE IF status = 401
    THEN Error("Rate limited or access denied")
    ELSE Error("GitHub API error: " \o ToString(status))

\* if (!response.ok) { ... }
StatusError(settings, status) ==
    IF status = 404
    THEN Error("Config file not found: " \o settings.configPath)
    ELSE IF status = 401
    THEN Error("Invalid GitHub token")
    ELSE IF status = 403
    THEN Error("Rate limited or access denied")
    ELSE Error("GitHub API error: " \o ToString(status))

\* what the call throws or returns once the response is in, and the
\* storage it leaves
fetchEnd(ls, settings, response) ==
    IF ~ResponseOk(response)
    THEN [result |-> Throw(StatusError(settings, response.status)),
          storage |-> ls]
    ELSE StoreParsed(ls, settings,
                     parseConfigFile(response.content, settings.configPath))

(***************************************************************************)
(* Inputs: the settings a user can submit, the files a repository can      *)
(* hold, the responses the network can give.                               *)
(***************************************************************************)
MaxInFlight == 1
MaxShortTicks == 1
MaxLongTicks == 1

SettingsA ==
    [repoOwner |-> "acme", repoName |-> "ml", branch |-> "main",
     configPath |-> "models.json", token |-> "tok"]
SettingsAdev ==
    [repoOwner |-> "acme", repoName |-> "ml", branch |-> "dev",
     configPath |-> "models.yaml", token |-> ""]
SettingsB ==
    [repoOwner |-> "acme", repoName |-> "nlp", branch |-> "main",
     configPath |-> "models.json", token |-> "tok"]
FormSettings == {SettingsA, SettingsAdev, SettingsB}
NoSettings ==
    [repoOwner |-> "", repoName |-> "", branch |-> "", configPath |-> "",
     token |-> ""]

\* JSON.stringify(v) of a value holding no undefined
RECURSIVE JSONstringify(_)
RECURSIVE StringifyElements(_)
RECURSIVE StringifyMembers(_, _)
StringifyElements(a) ==
    IF a = <<>> THEN ""
    ELSE IF Len(a) = 1 THEN JSONstringify(Head(a))
    ELSE JSONstringify(Head(a)) \o "," \o StringifyElements(Tail(a))

StringifyMembers(o, keys) ==
    IF keys = {} THEN ""
    ELSE LET k == CHOOSE x \in keys : TRUE
             member == "\"" \o k \o "\":" \o JSONstringify(o[k])
         IN  IF keys = {k} THEN member
             ELSE member \o "," \o StringifyMembers(o, keys \ {k})

JSONstringify(v) ==
    CASE v.t = "null" -> "null"
      [] v.t = "bool" -> (IF v.v THEN "true" ELSE "false")
      [] v.t = "num" -> NumToString(v.v)
      [] v.t = "str" -> "\"" \o v.v \o "\""
      [] v.t = "arr" -> "[" \o StringifyElements(v.v) \o "]"
      [] OTHER -> "{" \o StringifyMembers(v.v, DOMAIN v.v) \o "}"

JsonFile(doc) == [text |-> JSONstringify(doc), json |-> doc]
YamlFile(text) == [text |-> text, json |-> NotJson]

RecordFoo ==
    JObj([id |-> JStr("m1"), name |-> JStr("Foo"), status |-> JStr("production"),
          createdAt |-> JStr("2024-01-01"), updated_at |-> JStr("2024-02-01"),
          metrics |-> JObj([accuracy |-> JNum(9), latency |-> JStr("fast")])])
RecordBar ==
    JObj([name |-> JStr("Bar"), status |-> JStr("bogus"),
          created_at |-> JStr("2024-03-01"), updatedAt |-> JStr("2024-03-02")])

Files ==
    {JsonFile(JArr(<<RecordFoo, RecordBar>>)),
     JsonFile(JObj([models |-> JArr(<<RecordBar>>)])),
     JsonFile(JObj([name |-> JStr("Foo")])),
     YamlFile("- id: m1\n  createdAt: 2024\n  updatedAt: 2024\n  metrics:\n    accuracy: 0.9")}

ErrorBody == JsonFile(JObj([message |-> JStr("error")]))
FailureStatuses == {401, 403, 404, 500}
Responses ==
    {[status |-> 200, content |-> f] : f \in Files}
    \cup {[status |-> st, content |-> ErrorBody] : st \in FailureStatuses}

\* data/mockData initialModels: the local list
initialModels ==
    JArr(<<JObj([id |-> JStr("local-1"), name |-> JStr("Local Model"),
                 version |-> JStr("1.0.0"), description |-> JStr(""),
                 framework |-> JStr("PyTorch"), status |-> JStr("development"),
                 owner |-> JStr("me"), createdAt |-> JStr("2024-01-01"),
                 updatedAt |-> JStr("2024-01-01")])>>)

(***************************************************************************)
(* The fetch event of the latest step.                                     *)
(*   by       the handler that ran ("response" for a completion)           *)
(*   ev       "hit" / "miss": fetchModelsFromGitHub began and returned     *)
(*            from the cache / sent a request;  "ok" / "fail": a           *)
(*            suspended call returned / threw;  "local": loadModels(null)  *)
(*   settings the settings of the call                                     *)
(*   entry    the cache item when the handler was entered                  *)
(*   before   the cache item the call found (after the handler's own       *)
(*            invalidation, if any)                                        *)
(*   result   what the call returned or threw (Pending while suspended)    *)
(*   sent     the requests the call put on the network in this step        *)
(*   status   the status of the response that completed the call           *)
(* The cache item the call left is localStorage[CACHE_KEY] of the state.   *)
(***************************************************************************)
Pending == [ok |-> FALSE, val |-> JUndef, err |-> NoError]

NoEvent ==
    [by |-> "", ev |-> "none", settings |-> NoSettings, entry |-> <<>>,
     before |-> <<>>, result |-> Pending, sent |-> <<>>, status |-> 0]

BeginEvent(by, settings, ls, b) ==
    [by |-> by, ev |-> IF b.hit THEN "hit" ELSE "miss", settings |-> settings,
     entry |-> localStorage[CACHE_KEY], before |-> ls[CACHE_KEY],
     result |-> IF b.hit THEN Return(b.value) ELSE Pending,
     sent |-> b.sent, status |-> 0]

LocalEvent(by, ls) ==
    [by |-> by, ev |-> "local", settings |-> NoSettings,
     entry |-> localStorage[CACHE_KEY], before |-> ls[CACHE_KEY],
     result |-> Pending, sent |-> <<>>, status |-> 0]

EndEvent(settings, status, e) ==
    [by |-> "response", ev |-> IF e.result.ok THEN "ok" ELSE "fail",
     settings |-> settings, entry |-> localStorage[CACHE_KEY],
     before |-> localStorage[CACHE_KEY], result |-> e.result,
     sent |-> <<>>, status |-> status]

(***************************************************************************)
(* The App component.                                                      *)
(***************************************************************************)
TypeOK ==
    /\ DOMAIN localStorage = {SETTINGS_KEY, CACHE_KEY}
    /\ Len(calls) <= MaxInFlight
    /\ mounted \in BOOLEAN
    /\ isLoading \in BOOLEAN
    /\ connectionStatus \in {"disconnected", "connecting", "connected", "error"}

Init ==
    /\ localStorage = [k \in {SETTINGS_KEY, CACHE_KEY} |-> <<>>]
    /\ now = 0
    /\ calls = <<>>
    /\ mounted = FALSE
    /\ models = JArr(<<>>)
    /\ connectionStatus = "disconnected"
    /\ connectionError = JNull
    /\ isLoading = TRUE
    /\ last = NoEvent
    /\ input = <<>>
    /\ output = Pending

\* loadModels(null)
loadModelsLocal(by, ls) ==
    /\ models' = initialModels
    /\ connectionStatus' = "disconnected"
    /\ connectionError' = JNull
    /\ isLoading' = FALSE
    /\ localStorage' = ls
    /\ calls' = calls
    /\ last' = LocalEvent(by, ls)

\* loadModels(settings) up to its suspension, b being what the synchronous
\* part of fetchModelsFromGitHub did.  When that returned from the cache the
\* promise is already resolved and the rest of loadModels runs before any
\* other task.
loadModelsBegin(by, ls, settings, b) ==
    /\ localStorage' = b.storage
    /\ last' = BeginEvent(by, settings, ls, b)
    /\ connectionError' = JNull
    /\ IF b.hit
       THEN /\ models' = b.value
            /\ connectionStatus' = "connected"
            /\ isLoading' = FALSE
            /\ calls' = calls
       ELSE /\ models' = models
            /\ connectionStatus' = "connecting"
            /\ isLoading' = TRUE
            /\ calls' = Append(calls, [settings |-> settings,
                                       caller |-> "loadModels",
                                       request |-> b.sent[1]])

\* loadModels run by handler `by` on storage ls (what the handler left)
\* with the settings it passes (<<>> for null)
loadModels(by, ls, settings) ==
    IF settings = <<>>
    THEN loadModelsLocal(by, ls)
    ELSE loadModelsBegin(by, ls, settings[1], fetchBegin(ls, settings[1]))

\* useEffect(() => loadModels(getSettings()))
Mount ==
    /\ ~mounted
    /\ mounted' = TRUE
    /\ loadModels("mount", localStorage, getSettings(localStorage))
    /\ UNCHANGED <<now, input, output>>

handleRefresh ==
    /\ mounted
    /\ loadModels("refresh", invalidateCache(localStorage),
                  getSettings(invalidateCache(localStorage)))
    /\ UNCHANGED <<now, mounted, input, output>>

\* Settings form: saveSettings; invalidateCache; onSave(settings)
handleSubmit(settings) ==
    /\ mounted
    /\ loadModels("submit",
                  invalidateCache(saveSettings(localStorage, settings)),
                  <<settings>>)
    /\ UNCHANGED <<now, mounted, input, output>>

handleRetry(settings) ==
    /\ mounted
    /\ connectionStatus = "error"
    /\ loadModels("retry",
                  invalidateCache(saveSettings(localStorage, settings)),
                  <<settings>>)
    /\ UNCHANGED <<now, mounted, input, output>>

\* clearSettings; onSave(null)
handleDisconnect ==
    /\ mounted
    /\ getSettings(localStorage) # <<>>
    /\ loadModels("disconnect", clearSettings(localStorage), <<>>)
    /\ UNCHANGED <<now, mounted, input, output>>

\* the test's call up to its suspension
testBegin(ls, settings, b) ==
    /\ localStorage' = b.storage
    /\ last' = BeginEvent("test", settings, ls, b)
    /\ calls' = IF b.hit THEN calls
                ELSE Append(calls, [settings |-> settings,
                                    caller |-> "testConnection",
                                    request |-> b.sent[1]])

\* invalidateCache; await fetchModelsFromGitHub(form settings)
handleTestConnection(settings) ==
    /\ mounted
    /\ testBegin(invalidateCache(localStorage), settings,
                 fetchBegin(invalidateCache(localStorage), settings))
    /\ UNCHANGED <<now, mounted, models, connectionStatus, connectionError,
                   isLoading, input, output>>

RemoveAt(q, i) == SubSeq(q, 1, i - 1) \o SubSeq(q, i + 1, Len(q))

\* variant: a failure leaves the list that was shown
loadModelsEnd_keepsList(r) ==
    /\ isLoading' = FALSE
    /\ IF r.ok
       THEN /\ models' = r.val
            /\ connectionStatus' = "connected"
            /\ connectionError' = JNull
       ELSE /\ connectionError' = JStr(r.err.message)
            /\ connectionStatus' = "error"
            /\ models' = models

\* the rest of loadModels once its fetch has settled with result r
loadModelsEnd(r) ==
    /\ isLoading' = FALSE
    /\ IF r.ok
       THEN /\ models' = r.val
            /\ connectionStatus' = "connected"
            /\ connectionError' = JNull
       ELSE /\ connectionError' = JStr(r.err.message)
            /\ connectionStatus' = "error"
            /\ models' = initialModels

\* variant: a call whose request failed stays suspended on a second request
Settle_retries(i, status, e) ==
    /\ localStorage' = e.storage
    /\ last' = EndEvent(calls[i].settings, status, e)
    /\ calls' = IF e.result.ok THEN RemoveAt(calls, i) ELSE calls
    /\ IF calls[i].caller = "loadModels"
       THEN loadModelsEnd(e.result)
       ELSE UNCHANGED <<models, connectionStatus, connectionError, isLoading>>

\* variant: calls settle in the order they were started
Settle_inOrder(i, status, e) ==
    /\ i = 1
    /\ localStorage' = e.storage
    /\ last' = EndEvent(calls[i].settings, status, e)
    /\ calls' = RemoveAt(calls, i)
    /\ IF calls[i].caller = "loadModels"
       THEN loadModelsEnd(e.result)
       ELSE UNCHANGED <<models, connectionStatus, connectionError, isLoading>>

\* suspended call i settles with e (result and storage left)
Settle(i, status, e) ==
    /\ localStorage' = e.storage
    /\ last' = EndEvent(calls[i].settings, status, e)
    /\ calls' = RemoveAt(calls, i)
    /\ IF calls[i].caller = "loadModels"
       THEN loadModelsEnd(e.result)
       ELSE UNCHANGED <<models, connectionStatus, connectionError, isLoading>>

\* the network answers suspended call i
Respond(i, response) ==
    /\ i \in 1..Len(calls)
    /\ Settle(i, response.status,
              fetchEnd(localStorage, calls[i].settings, response))
    /\ UNCHANGED <<now, mounted, input, output>>

\* fetch() itself rejects: no response
NetworkError(i) ==
    /\ i \in 1..Len(calls)
    /\ Settle(i, 0, [result |-> Throw(TypeError("Failed to fetch")),
                     storage |-> localStorage])
    /\ UNCHANGED <<now, mounted, input, output>>

\* the page is reloaded: component state and pending calls are gone,
\* localStorage stays
Reload ==
    /\ mounted
    /\ mounted' = FALSE
    /\ calls' = <<>>
    /\ models' = JArr(<<>>)
    /\ connectionStatus' = "disconnected"
    /\ connectionError' = JNull
    /\ isLoading' = TRUE
    /\ last' = NoEvent
    /\ UNCHANGED <<localStorage, now, input, output>>

\* time passes: one millisecond, or one TTL
Tick(d) ==
    /\ IF d = 1 THEN now % CACHE_TTL < MaxShortTicks
                ELSE now \div CACHE_TTL < MaxLongTicks
    /\ now' = now + d
    /\ last' = NoEvent
    /\ UNCHANGED <<localStorage, calls, mounted, models, connectionStatus,
                   connectionError, isLoading, input, output>>

\* renderModelsContent: the spinner replaces the list while loading; the
\* list takes no add / edit / delete when isReadOnly
isReadOnly == connectionStatus = "connected"
listShown == ~isLoading

\* The handlers that may start a call run while fewer than MaxInFlight calls
\* are suspended.
CanCall == Len(calls) < MaxInFlight

Next ==
    \/ CanCall /\ Mount
    \/ CanCall /\ handleRefresh
    \/ \E st \in FormSettings : CanCall /\ handleSubmit(st)
    \/ \E st \in FormSettings : CanCall /\ handleRetry(st)
    \/ handleDisconnect
    \/ \E st \in FormSettings : CanCall /\ handleTestConnection(st)
    \/ \E i \in 1..MaxInFlight, r \in Responses : Respond(i, r)
    \/ \E i \in 1..MaxInFlight : NetworkError(i)
    \/ Reload
    \/ \E d \in {1, CACHE_TTL} : Tick(d)

Spec == Init /\ [][Next]_vars

(***************************************************************************)
(* Properties of the result cache and of the fetch.                        *)
(***************************************************************************)
CacheItem == localStorage[CACHE_KEY]

\* age of a stored entry, in milliseconds
EntryAge(e) == now - getTime(Get(e, "lastFetched").v)

\* the entry was stored for the repository of these settings
SameIdentity(e, settings) ==
    Get(e, "repoUrl") = JStr(settings.repoOwner \o "/" \o settings.repoName)

FiveMinutes == 5 * 60 * 1000

LookedUp == last.ev \in {"hit", "miss"}

\* a and b read the same at every property
RECURSIVE SameValue(_, _)
SameValue(a, b) ==
    IF a.t = "obj" /\ b.t = "obj"
    THEN \A k \in (DOMAIN a.v) \cup (DOMAIN b.v) : SameValue(Get(a, k), Get(b, k))
    ELSE IF a.t = "arr" /\ b.t = "arr"
    THEN /\ Len(a.v) = Len(b.v)
         /\ \A i \in 1..Len(a.v) : SameValue(a.v[i], b.v[i])
    ELSE a = b

\* C1: a call that finds an entry of its own repository no older than the
\* TTL returns that entry's list and sends nothing.
C1_FreshEntryIsReturned ==
    (/\ LookedUp
     /\ last.before # <<>>
     /\ SameIdentity(last.before[1], last.settings)
     /\ EntryAge(last.before[1]) <= FiveMinutes)
    => (/\ last.ev = "hit"
        /\ last.result = Return(Get(last.before[1], "models"))
        /\ last.sent = <<>>)

\* a hit on an entry whose age is exactly the TTL
C1_Witness ==
    /\ last.ev = "hit"
    /\ EntryAge(last.before[1]) = FiveMinutes
    /\ Len(last.result.val.v) > 0

\* C2: a call that finds an entry older than the TTL sends a request and
\* does not return from the cache, whatever the entry's identity.
C2_ExpiredEntryIsRefetched ==
    (/\ LookedUp
     /\ last.before # <<>>
     /\ EntryAge(last.before[1]) > FiveMinutes)
    => (/\ last.ev = "miss"
        /\ Len(last.sent) = 1
        /\ last.result = Pending)

\* a miss on an expired entry of the call's own repository
C2_Witness ==
    /\ last.ev = "miss"
    /\ last.before # <<>>
    /\ EntryAge(last.before[1]) > FiveMinutes
    /\ SameIdentity(last.before[1], last.settings)

\* C3: a call for one repository never returns an entry stored for
\* another, and sends its own request.
C3_OtherIdentityIsNotReturned ==
    (/\ LookedUp
     /\ last.before # <<>>
     /\ ~SameIdentity(last.before[1], last.settings))
    => (/\ last.ev = "miss"
        /\ last.sent = <<RequestOf(last.settings)>>
        /\ last.result = Pending)

\* a miss on a fresh entry of another repository
C3_Witness ==
    /\ last.ev = "miss"
    /\ last.before # <<>>
    /\ ~SameIdentity(last.before[1], last.settings)
    /\ EntryAge(last.before[1]) <= FiveMinutes

Invalidating == {"refresh", "submit", "retry", "test", "disconnect"}

\* C4: saveSettings, clearSettings and invalidateCache each leave the cache
\* item absent, and the fetch a handler makes right after them sends a
\* request.
C4_InvalidationForcesRequest ==
    /\ invalidateCache(localStorage)[CACHE_KEY] = <<>>
    /\ clearSettings(localStorage)[CACHE_KEY] = <<>>
    /\ \A st \in FormSettings : saveSettings(localStorage, st)[CACHE_KEY] = <<>>
    /\ last.by \in Invalidating
       => (/\ last.before = <<>>
           /\ last.ev \in {"miss", "local"}
           /\ last.ev = "miss" => Len(last.sent) = 1)

\* a refresh that found a fresh entry of its own repository
C4_Witness ==
    /\ last.by = "refresh"
    /\ last.ev = "miss"
    /\ last.entry # <<>>
    /\ SameIdentity(last.entry[1], last.settings)
    /\ EntryAge(last.entry[1]) <= FiveMinutes

\* C5: a call that returns a list from the network leaves the entry
\* (list returned, owner/name of its settings, time of the write), whatever
\* was stored before.
C5_SuccessWritesEntry ==
    last.ev = "ok"
    => (/\ CacheItem # <<>>
        /\ SameValue(Get(CacheItem[1], "models"), last.result.val)
        /\ Get(CacheItem[1], "repoUrl")
             = JStr(last.settings.repoOwner \o "/" \o last.settings.repoName)
        /\ getTime(Get(CacheItem[1], "lastFetched").v) = now)

\* a success that overwrote a fresh entry of another repository
C5_Witness ==
    /\ last.ev = "ok"
    /\ last.before # <<>>
    /\ ~SameIdentity(last.before[1], last.settings)
    /\ EntryAge(last.before[1]) <= FiveMinutes
    /\ EntryAge(last.before[1]) > 0
    /\ Len(last.result.val.v) > 0

\* C6: a call that fails leaves the cache item as it found it.
C6_FailureKeepsCache ==
    last.ev = "fail" => CacheItem = last.before

\* a config that is no list, received while an entry is stored
C6_Witness ==
    /\ last.ev = "fail"
    /\ last.status = 200
    /\ last.before # <<>>
    /\ CacheItem = last.before

\* C7: a lookup leaves the cache item as it found it, and the item changes
\* only when a call succeeds or a handler invalidates it.
C7_LookupKeepsEntry ==
    /\ [](LookedUp => CacheItem = last.before)
    /\ [][CacheItem' # CacheItem
          => \/ last'.ev = "ok"
             \/ last'.by \in Invalidating /\ CacheItem' = <<>>]_vars

\* a miss on an expired entry, which is still stored
C7_Witness ==
    /\ last.ev = "miss"
    /\ last.before # <<>>
    /\ EntryAge(last.before[1]) > FiveMinutes
    /\ CacheItem = last.before

IsSuccessStatus(status) == status >= 200 /\ status <= 299

\* C8: a response whose status is no success makes the call fail with the
\* error of that status.
C8_FailureByStatus ==
    (last.ev \in {"ok", "fail"} /\ last.status # 0 /\ ~IsSuccessStatus(last.status))
    => (/\ last.ev = "fail"
        /\ last.result.err.name = "Error"
        /\ last.result.err.message =
             CASE last.status = 404 ->
                    "Config file not found: " \o last.settings.configPath
               [] last.status = 401 -> "Invalid GitHub token"
               [] last.status = 403 -> "Rate limited or access denied"
               [] OTHER -> "GitHub API error: " \o ToString(last.status))

\* a 403 answered to a call
C8_Witness ==
    /\ last.ev = "fail"
    /\ last.status = 403
    /\ last.result.err.message = "Rate limited or access denied"

(***************************************************************************)
(* The decoding functions on their own: parseConfigFile and normalizeModel *)
(* applied to one input drawn from the documents below.                    *)
(***************************************************************************)
MaxItems == 2

\* what an element of a decoded list can be
DocItems ==
    {JNull, JNum(0), JNum(15), JStr(""), JStr("x"), JBool(TRUE), JBool(FALSE),
     JArr(<<>>), JObj(EmptyObject), RecordFoo, RecordBar,
     JObj([id |-> JNum(0), name |-> JNull, status |-> JNum(3),
           metrics |-> JNull, files |-> JStr("x")]),
     JObj([id |-> JBool(FALSE), version |-> JNum(20),
           metrics |-> JObj([accuracy |-> JStr("high"), latency |-> JNum(450)]),
           files |-> JObj([modelCard |-> JStr("card.md"), modelFile |-> JNum(5)])]),
     JObj([id |-> JArr(<<>>), status |-> JStr("staging"),
           owner |-> JObj(EmptyObject)]),
     JObj([id |-> JStr("model-1"), name |-> JStr("Baz")])}

\* records whose metrics / files keys hold values of every kind
GroupItems ==
    {JObj([id |-> JStr("g1"), metrics |-> JNum(0), files |-> JStr("")]),
     JObj([id |-> JStr("g2"), metrics |-> JBool(FALSE), files |-> JArr(<<>>)]),
     JObj([id |-> JStr("g3"), metrics |-> JStr("x"), files |-> JNum(10)]),
     JObj([id |-> JStr("g4"),
           metrics |-> JObj([accuracy |-> JNum(0), latency |-> JNull]),
           files |-> JObj([modelCard |-> JStr(""), trainingScript |-> JNull,
                           featureScript |-> JBool(TRUE),
                           inferenceScript |-> JStr("run.py")])]),
     JObj([id |-> JStr("g5"), metrics |-> JObj(EmptyObject), files |-> JNull])}

ListsUpTo(n) == UNION {[1..k -> DocItems] : k \in 0..n}

\* what JSON.parse can give
Docs ==
    {JArr(l) : l \in ListsUpTo(MaxItems)}
    \cup {JObj([models |-> JArr(l)]) : l \in ListsUpTo(1)}
    \cup {JObj([models |-> x]) : x \in {JNull, JNum(0), JStr("x"), JObj(EmptyObject)}}
    \cup {JObj(EmptyObject), JObj([name |-> JStr("Foo")])}
    \cup {JNull, JNum(0), JNum(15), JStr(""), JStr("[]"), JBool(TRUE), JBool(FALSE)}

YamlTexts ==
    {"- id: m1\n  name: Foo\n  metrics:\n    accuracy: 0.9\n- id: m2\n  status: bogus",
     "models:\n  - id: m1\n    status: staging",
     "# empty"}

\* Models in canonical form: every required field a string, the optional
\* groups absent, unset (as normalizeModel leaves them) or holding fields of
\* the declared types
CanonicalFoo ==
    [id |-> JStr("m1"), name |-> JStr("Foo"), version |-> JStr("1.0.0"),
     description |-> JStr(""), framework |-> JStr("PyTorch"),
     status |-> JStr("production"), owner |-> JStr("me"),
     createdAt |-> JStr("2024-01-01"), updatedAt |-> JStr("2024-02-01")]

CanonicalFull ==
    JObj([id |-> JStr("0"), name |-> JStr("Bar"), version |-> JStr("2.1.0"),
          description |-> JStr("demo"), framework |-> JStr("Unknown"),
          status |-> JStr("archived"), owner |-> JStr("Unknown"),
          createdAt |-> JStr("T+0"), updatedAt |-> JStr("T+0"),
          metrics |-> JObj([accuracy |-> JNum(0), latency |-> JNum(1200)]),
          files |-> JObj([modelCard |-> JStr("card.md"), modelFile |-> JStr("")])])

CanonicalUnset ==
    JObj([id |-> JStr("model-0"), name |-> JStr("Unnamed Model"),
          version |-> JStr("1.0.0"), description |-> JStr(""),
          framework |-> JStr("Unknown"), status |-> JStr("development"),
          owner |-> JStr("Unknown"), createdAt |-> JStr("T+0"),
          updatedAt |-> JStr("T+0"),
          metrics |-> JObj([accuracy |-> JNum(9), latency |-> JUndef]),
          files |-> JUndef])

CanonicalEmptyGroups ==
    JObj([id |-> JStr("m3"), name |-> JStr("Baz"), version |-> JStr("0.1"),
          description |-> JStr("x"), framework |-> JStr("JAX"),
          status |-> JStr("staging"), owner |-> JStr("you"),
          createdAt |-> JStr("2024-01-01"), updatedAt |-> JStr("2024-01-01"),
          metrics |-> JObj(EmptyObject), files |-> JObj(EmptyObject)])

CanonicalModels ==
    {JObj(CanonicalFoo), CanonicalFull, CanonicalUnset, CanonicalEmptyGroups}
    \cup {JObj([CanonicalFoo EXCEPT ![f] = JStr("")]) :
            f \in {"id", "name", "owner", "createdAt"}}

CanonicalLists == UNION {[1..k -> CanonicalModels] : k \in 0..MaxItems}

\* what a record can hold as its status
StatusValues ==
    {JUndef, JNull, JNum(0), JNum(10), JBool(TRUE), JStr(""),
     JStr("development"), JStr("staging"), JStr("production"), JStr("archived"),
     JStr("Production"), JStr("production "), JStr("deployed"),
     JArr(<<JStr("staging")>>), JObj([status |-> JStr("staging")])}

\* YAML texts for the record markers
MarkerTexts ==
    {"- id: a\n- id: b",
     "- id: a\n\n# note\n- name: x\n  owner: me",
     "  - id: a\n  - url: http://x\n",
     "- foo\n- id: b",
     "- id: a\n- foo",
     "-\n  id: a\n  name: Foo",
     "-\n-",
     "- \n- id: b",
     "- id: a\n-\n  name: x"}

\* YAML texts for the nested mappings: a key: value line at each
\* indentation, right after the line that opens the mapping and after a
\* first nested line
Indentations ==
    {"", "  ", "   ", "    ", "     ", "      ", "        ", "\t", "\t\t"}

NestedTexts ==
    {"- id: a\n  metrics:\n" \o sp \o "accuracy: 0.9" : sp \in Indentations}
    \cup {"- id: a\n  files:\n    modelCard: card.md\n" \o sp \o "owner: me" :
             sp \in Indentations}

\* YAML texts for the closing of nested mappings
ClosingTexts ==
    {"- id: a\n  metrics:\n    accuracy: 0.9\n  name: x\n    latency: 5",
     "- id: a\n  metrics:\n    accuracy: 0.9\n- id: b\n  files:\n    modelCard: c.md",
     "- id: a\n  metrics:\n    accuracy: 0.9\n  files:\n    modelCard: c.md\n  owner: me",
     "- id: a\n  metrics:\n  name: x\n    accuracy: 0.9",
     "- id: a\n  metrics:\n- id: b"}

\* YAML texts with lines before the first record and lines without a colon
HeaderTexts ==
    {"models:\n- id: a\n  name: Foo",
     "models:\n  - id: m1\n    name: Foo\n    metrics:\n      accuracy: 0.9\n    status: staging",
     "version: 2\nname: registry\nmodels:\n- id: a",
     "metrics:\n    accuracy: 0.9\n- id: a\n    latency: 5",
     "- id: a\nstray words\n  name: Foo\n---\n- id: b",
     "just text\n\n- id: a",
     "name: x\nowner: me"}

\* value tokens, each with the value the coercion rules give it
TokenTable ==
    {<<"", JStr("")>>,
     <<"\"abc\"", JStr("abc")>>, <<"'abc'", JStr("abc")>>,
     <<"\"42\"", JStr("42")>>, <<"'true'", JStr("true")>>,
     <<"\"null\"", JStr("null")>>, <<"\"\"", JStr("")>>, <<"''", JStr("")>>,
     <<"\"a\"b\"", JStr("a\"b")>>,
     <<"42", JNum(420)>>, <<"-7", JNum(-70)>>, <<"0.9", JNum(9)>>,
     <<"-0.5", JNum(-5)>>, <<"007", JNum(70)>>,
     <<"true", JBool(TRUE)>>, <<"false", JBool(FALSE)>>,
     <<"null", JNull>>, <<"~", JNull>>,
     <<"1.", JStr("1.")>>, <<".5", JStr(".5")>>, <<"1e5", JStr("1e5")>>,
     <<"4 2", JStr("4 2")>>, <<"+1", JStr("+1")>>, <<"-", JStr("-")>>,
     <<"True", JStr("True")>>, <<"Null", JStr("Null")>>, <<"abc", JStr("abc")>>,
     <<"2024-08-15T10:30:00Z", JStr("2024-08-15T10:30:00Z")>>,
     <<"\"abc'", JStr("\"abc'")>>, <<"\"abc", JStr("\"abc")>>,
     <<"abc\"", JStr("abc\"")>>,
     <<"\"", JStr("\"")>>, <<"'", JStr("'")>>}

Tokens == {p[1] : p \in TokenTable}

DecodePaths ==
    {"models.json", "config.yml", "models.yaml", "models.YAML", "models.yaml.txt"}

NoContent == [text |-> "", json |-> NotJson]

DecodeInputs ==
    {[op |-> "parseConfigFile", content |-> JsonFile(d), path |-> p,
      item |-> JUndef, index |-> 0] : d \in Docs, p \in {"models.json", "config.yml"}}
    \cup {[op |-> "parseConfigFile", content |-> YamlFile(t), path |-> p,
           item |-> JUndef, index |-> 0] : t \in YamlTexts, p \in DecodePaths}
    \cup {[op |-> "normalizeModel", content |-> NoContent, path |-> "",
           item |-> it, index |-> i] : it \in DocItems \cup GroupItems, i \in 0..MaxItems}
    \cup {[op |-> "roundTrip", content |-> NoContent, path |-> "models.json",
           item |-> JArr(l), index |-> 0] : l \in CanonicalLists}
    \cup {[op |-> "validateStatus", content |-> NoContent, path |-> "",
           item |-> v, index |-> 0] : v \in StatusValues}
    \cup {[op |-> "parseYamlValue", content |-> YamlFile(t), path |-> "",
           item |-> JUndef, index |-> 0] : t \in Tokens}
    \cup {[op |-> "parseYaml", content |-> YamlFile(t), path |-> "",
           item |-> JUndef, index |-> 0] :
             t \in MarkerTexts \cup NestedTexts \cup ClosingTexts \cup HeaderTexts}

DecodeInit ==
    /\ localStorage = [k \in {SETTINGS_KEY, CACHE_KEY} |-> <<>>]
    /\ now = 0
    /\ calls = <<>>
    /\ mounted = FALSE
    /\ models = JArr(<<>>)
    /\ connectionStatus = "disconnected"
    /\ connectionError = JNull
    /\ isLoading = TRUE
    /\ last = NoEvent
    /\ input \in {<<x>> : x \in DecodeInputs}
    /\ output = Pending

ApplyParseConfigFile ==
    /\ input[1].op = "parseConfigFile"
    /\ output = Pending
    /\ output' = parseConfigFile(input[1].content, input[1].path)
    /\ UNCHANGED <<localStorage, now, calls, mounted, models, connectionStatus,
                   connectionError, isLoading, last, input>>

ApplyNormalizeModel ==
    /\ input[1].op = "normalizeModel"
    /\ output = Pending
    /\ output' = normalizeModel(input[1].item, input[1].index)
    /\ UNCHANGED <<localStorage, now, calls, mounted, models, connectionStatus,
                   connectionError, isLoading, last, input>>

\* the list is written as a JSON array and read back by parseConfigFile
ApplyRoundTrip ==
    /\ input[1].op = "roundTrip"
    /\ output = Pending
    /\ output' = parseConfigFile(JsonFile(JSONclone(input[1].item)),
                                 input[1].path)
    /\ UNCHANGED <<localStorage, now, calls, mounted, models, connectionStatus,
                   connectionError, isLoading, last, input>>

\* the status of a record holding nothing else, by normalizeModel
ApplyValidateStatus ==
    /\ input[1].op = "validateStatus"
    /\ output = Pending
    /\ output' = normalizeModel(JObj([status |-> input[1].item]), input[1].index)
    /\ UNCHANGED <<localStorage, now, calls, mounted, models, connectionStatus,
                   connectionError, isLoading, last, input>>

ApplyParseYamlValue ==
    /\ input[1].op = "parseYamlValue"
    /\ output = Pending
    /\ output' = Return(parseYamlValue(input[1].content.text))
    /\ UNCHANGED <<localStorage, now, calls, mounted, models, connectionStatus,
                   connectionError, isLoading, last, input>>

ApplyParseYaml ==
    /\ input[1].op = "parseYaml"
    /\ output = Pending
    /\ output' = Return(parseYaml(input[1].content.text))
    /\ UNCHANGED <<localStorage, now, calls, mounted, models, connectionStatus,
                   connectionError, isLoading, last, input>>

DecodeNext ==
    \/ ApplyParseConfigFile
    \/ ApplyNormalizeModel
    \/ ApplyRoundTrip
    \/ ApplyValidateStatus
    \/ ApplyParseYaml
    \/ ApplyParseYamlValue

SpecDecode == DecodeInit /\ [][DecodeNext]_vars

(***************************************************************************)
(* Properties of the decoding functions.                                   *)
(***************************************************************************)
Decoded(op) == input # <<>> /\ input[1].op = op /\ output # Pending

IsYamlPath(path) == endsWith(path, ".yaml") \/ endsWith(path, ".yml")

MalformedConfig == Error("Config file must contain an array of models")

\* the document is a list, or an object whose models field is a list
HoldsList(doc) ==
    \/ doc.t = "arr"
    \/ doc.t = "obj" /\ "models" \in DOMAIN doc.v /\ doc.v["models"].t = "arr"

\* C9: a decoded document that holds a list is not refused as malformed,
\* and every other decoded document fails with MalformedConfig.
C9_OtherDocumentsAreMalformed ==
    (/\ Decoded("parseConfigFile")
     /\ ~IsYamlPath(input[1].path)
     /\ input[1].content.json # NotJson)
    => IF HoldsList(input[1].content.json)
       THEN output.err # MalformedConfig
       ELSE output = Throw(MalformedConfig)

RequiredFields ==
    {"id", "name", "version", "description", "framework", "status", "owner",
     "createdAt", "updatedAt"}

\* C10: normalizeModel returns a Model with every required field a string
\* for every element of a decoded list, and a list of such elements never
\* makes parseConfigFile fail.
C10_NormalizeIsTotal ==
    /\ Decoded("normalizeModel")
       => (/\ output.ok
           /\ \A f \in RequiredFields : Get(output.val, f).t = "str")
    /\ (/\ Decoded("parseConfigFile")
        /\ ~IsYamlPath(input[1].path)
        /\ input[1].content.json # NotJson
        /\ HoldsList(input[1].content.json))
       => output.ok

(***************************************************************************)
(* The App with calls overlapping: a handler may start a call while        *)
(* another is suspended on the network (the refresh button and the         *)
(* settings form stay active while loadModels waits).                      *)
(***************************************************************************)
MaxConcurrent == 2

ConcurrentSettings == {SettingsA, SettingsB}

ConcurrentResponses ==
    {[status |-> 200, content |-> JsonFile(JArr(<<RecordFoo, RecordBar>>))],
     [status |-> 200, content |-> JsonFile(JObj([models |-> JArr(<<RecordBar>>)]))],
     [status |-> 404, content |-> ErrorBody]}

CanStart == Len(calls) < MaxConcurrent

ConcurrentNext ==
    \/ CanStart /\ Mount
    \/ CanStart /\ handleRefresh
    \/ \E st \in ConcurrentSettings : CanStart /\ handleSubmit(st)
    \/ \E st \in ConcurrentSettings : CanStart /\ handleTestConnection(st)
    \/ handleDisconnect
    \/ \E i \in 1..MaxConcurrent, r \in ConcurrentResponses : Respond(i, r)
    \/ Tick(1)

SpecConcurrent == Init /\ [][ConcurrentNext]_vars

(***************************************************************************)
(* Properties of overlapping calls.                                        *)
(***************************************************************************)
\* the entry setCache writes for a list, at a time, for the given settings
EntryOf(list, settings, t) ==
    JSONclone(JObj([models |-> list,
                    lastFetched |-> JStr(toISOString(t)),
                    repoUrl |-> JStr(settings.repoOwner \o "/" \o settings.repoName)]))

\* C11: a call started on an empty cache misses and sends its own request
\* whether or not another call is suspended; each suspended call can
\* complete whatever the other does; and a call that completes with a list
\* leaves its own entry, so the entry after two completions is the one of
\* the later.
C11_ConcurrentCallsBothFetch ==
    /\ []((LookedUp /\ last.before = <<>>)
          => (/\ last.ev = "miss"
              /\ last.sent = <<RequestOf(last.settings)>>
              /\ calls # <<>>
              /\ calls[Len(calls)].request = last.sent[1]))
    /\ [](\A i \in 1..Len(calls) :
            ENABLED (\E r \in ConcurrentResponses : Respond(i, r)))
    /\ [][last'.ev = "ok"
          => CacheItem' = <<EntryOf(last'.result.val, last'.settings, now')>>]_vars

\* one of two overlapping calls has completed with a list and left its
\* entry while the other, for another repository, is still suspended
C11_Witness ==
    /\ last.ev = "ok"
    /\ Len(calls) = 1
    /\ calls[1].settings # last.settings
    /\ CacheItem = <<EntryOf(last.result.val, last.settings, now)>>

\* C12: the request of a suspended call is the one for its own settings,
\* and whenever the cache item becomes a new entry, one call has just
\* completed with a list and the entry is (that list, owner/name of that
\* call's settings, the time of that completion).
C12_EntryFromOneFetch ==
    /\ [](\A i \in 1..Len(calls) : calls[i].request = RequestOf(calls[i].settings))
    /\ [][(CacheItem' # CacheItem /\ CacheItem' # <<>>)
          => (/\ last'.ev = "ok"
              /\ \E i \in 1..Len(calls) :
                    /\ calls' = RemoveAt(calls, i)
                    /\ calls[i].settings = last'.settings
                    /\ CacheItem' = <<EntryOf(last'.result.val, calls[i].settings, now')>>)]_vars

\* a call completed with a list over the older entry that a call for
\* another repository had left
C12_Witness ==
    /\ last.ev = "ok"
    /\ last.before # <<>>
    /\ ~SameIdentity(last.before[1], last.settings)
    /\ EntryAge(last.before[1]) > 0
    /\ SameIdentity(CacheItem[1], last.settings)
    /\ EntryAge(CacheItem[1]) = 0

(***************************************************************************)
(* Properties of failure handling.                                         *)
(***************************************************************************)
\* C13: a call sends at most one request, when it starts; the step in which
\* a call returns or throws sends nothing and leaves one suspended call
\* fewer; a request is only ever added by a handler starting a call.
C13_NoRetry ==
    /\ [](Len(last.sent) <= 1)
    /\ [](last.ev \in {"ok", "fail"} => last.sent = <<>>)
    /\ [][last'.ev \in {"ok", "fail"} => Len(calls') = Len(calls) - 1]_vars
    /\ [][Len(calls') > Len(calls)
          => (/\ Len(calls') = Len(calls) + 1
              /\ last'.ev = "miss"
              /\ last'.by # "response")]_vars

\* a load failed on a server error and nothing is in flight
C13_Witness ==
    /\ last.ev = "fail"
    /\ last.status = 500
    /\ calls = <<>>
    /\ connectionStatus = "error"

\* C14: the step in which the fetch of a loadModels fails leaves the local
\* list, status "error", the failure's message, no loading, and a list that
\* is shown and not read-only.
C14_FailureFallsBackToLocal ==
    [][(/\ last'.ev = "fail"
        /\ \E i \in 1..Len(calls) :
              calls[i].caller = "loadModels" /\ calls' = RemoveAt(calls, i))
       => (/\ models' = initialModels
           /\ connectionStatus' = "error"
           /\ connectionError' = JStr(last'.result.err.message)
           /\ ~isLoading'
           /\ listShown'
           /\ ~isReadOnly')]_vars

\* a load failed on a config that holds no list, after a list had been shown
C14_Witness ==
    /\ last.ev = "fail"
    /\ last.status = 200
    /\ calls = <<>>
    /\ connectionStatus = "error"
    /\ connectionError = JStr("Config file must contain an array of models")
    /\ models = initialModels
    /\ ~isLoading

(***************************************************************************)
(* Properties of normalisation.                                            *)
(***************************************************************************)
\* the fields normalizeModel fills with a default when they are empty
DefaultedFields ==
    {"id", "name", "version", "framework", "owner", "createdAt", "updatedAt"}

NoEmptyField(m) == \A f \in DefaultedFields : Get(m, f) # JStr("")

\* C15 as stated: every list of canonical Models comes back from the round
\* trip equal field by field.
C15_RoundTripOfAnyCanonicalList ==
    Decoded("roundTrip")
    => (output.ok /\ SameValue(output.val, input[1].item))

\* C15: a list of canonical Models none of which has an empty id, name,
\* version, framework, owner, createdAt or updatedAt comes back from the
\* round trip equal field by field.
C15_RoundTripOfNonEmptyFields ==
    (/\ Decoded("roundTrip")
     /\ \A i \in 1..Len(input[1].item.v) : NoEmptyField(input[1].item.v[i]))
    => (output.ok /\ SameValue(output.val, input[1].item))

\* two Models came back, one with an accuracy of 0 and one with an unset
\* latency
C15_Witness ==
    /\ Decoded("roundTrip")
    /\ input[1].item.v = <<CanonicalFull, CanonicalUnset>>
    /\ output.ok
    /\ Len(output.val.v) = 2
    /\ Get(Get(output.val.v[1], "metrics"), "accuracy") = JNum(0)

\* the list a decoding returned
Returned == output.val.v

\* C16: in every list that parseConfigFile returns, the ids are pairwise
\* distinct.
C16_IdsAreDistinct ==
    (Decoded("parseConfigFile") /\ output.ok)
    => \A i, j \in 1..Len(Returned) :
          i # j => Get(Returned[i], "id") # Get(Returned[j], "id")

\* the status a source value must be normalized to
ExpectedStatus(source) ==
    IF source \in {JStr("development"), JStr("staging"), JStr("production"),
                   JStr("archived")}
    THEN source
    ELSE JStr("development")

\* C17: the normalized status is the source value when that is one of the
\* four status strings and "development" for every other source value.
C17_StatusIsValidated ==
    /\ (Decoded("validateStatus") /\ output.ok)
       => Get(output.val, "status") = ExpectedStatus(input[1].item)
    /\ (Decoded("normalizeModel") /\ output.ok)
       => Get(output.val, "status") = ExpectedStatus(Get(input[1].item, "status"))

\* a status string in another letter case became "development"
C17_Witness ==
    /\ Decoded("validateStatus")
    /\ input[1].item = JStr("Production")
    /\ output.ok
    /\ Get(output.val, "status") = JStr("development")

(***************************************************************************)
(* fetchFileContent, called by ModelDetail's loadFile while the App is     *)
(* connected.  The suspended file calls are kept in input, the result of   *)
(* the latest one in output.                                               *)
(***************************************************************************)
MaxFileCalls == 1

FilePaths == {"card.md", "src/train.py"}

FileRequestOf(settings, filePath) ==
    [url |-> "https://api.github.com/repos/" \o settings.repoOwner \o "/"
             \o settings.repoName \o "/contents/" \o filePath
             \o "?ref=" \o settings.branch,
     authorization |-> IF settings.token # "" THEN "Bearer " \o settings.token
                       ELSE ""]

\* fetchFileContent up to its suspension: what it throws at once, or the
\* request it sends
fetchFileBegin(ls, filePath) ==
    IF getSettings(ls) = <<>>
    THEN [result |-> Throw(Error("GitHub not configured")), sent |-> <<>>,
          settings |-> NoSettings]
    ELSE [result |-> Pending,
          sent |-> <<FileRequestOf(getSettings(ls)[1], filePath)>>,
          settings |-> getSettings(ls)[1]]

\* variant: a missing file is reported like any other failure
FileStatusError_sameForAll(filePath, status) ==
    Error("Failed to fetch file: " \o ToString(status))

\* if (!response.ok) { ... }
FileStatusError(filePath, status) ==
    IF status = 404
    THEN Error("File not found: " \o filePath)
    ELSE Error("Failed to fetch file: " \o ToString(status))

\* fetchFileContent from the response on
fetchFileEnd(filePath, response) ==
    IF ~ResponseOk(response)
    THEN Throw(FileStatusError(filePath, response.status))
    ELSE Return(JStr(response.content.text))

FileResponses ==
    {[status |-> 200, content |-> YamlFile("# Model card")]}
    \cup {[status |-> st, content |-> ErrorBody] : st \in FailureStatuses}

\* the file event of a step: as for a fetch, with the path asked for
FileEvent(ev, filePath, settings, status, result, sent) ==
    [by |-> "file", ev |-> ev, settings |-> settings,
     entry |-> localStorage[CACHE_KEY], before |-> localStorage[CACHE_KEY],
     result |-> result, sent |-> sent, status |-> status, path |-> filePath]

\* the part of loadFile that runs at once, b being what fetchFileContent did
loadFileBegin(filePath, b) ==
    /\ output' = b.result
    /\ input' = IF b.sent = <<>> THEN input
                ELSE Append(input, [path |-> filePath, settings |-> b.settings,
                                    request |-> b.sent[1]])
    /\ last' = FileEvent("fileStart", filePath, b.settings, 0, b.result, b.sent)

\* loadFile(filePath, ...): if (!filePath || !isConnected) return
loadFile(filePath) ==
    /\ mounted
    /\ connectionStatus = "connected"
    /\ Len(input) < MaxFileCalls
    /\ loadFileBegin(filePath, fetchFileBegin(localStorage, filePath))
    /\ UNCHANGED <<localStorage, now, calls, mounted, models, connectionStatus,
                   connectionError, isLoading>>

\* the network answers suspended file call i
FileRespond(i, response) ==
    /\ i \in 1..Len(input)
    /\ output' = fetchFileEnd(input[i].path, response)
    /\ input' = RemoveAt(input, i)
    /\ last' = FileEvent(IF output'.ok THEN "fileOk" ELSE "fileFail",
                         input[i].path, input[i].settings, response.status,
                         output', <<>>)
    /\ UNCHANGED <<localStorage, now, calls, mounted, models, connectionStatus,
                   connectionError, isLoading>>

FilesNext ==
    \/ CanCall /\ Mount
    \/ \E st \in ConcurrentSettings : CanCall /\ handleSubmit(st)
    \/ handleDisconnect
    \/ \E i \in 1..MaxInFlight, r \in ConcurrentResponses : Respond(i, r)
    \/ \E p \in FilePaths : loadFile(p)
    \/ \E i \in 1..MaxFileCalls, r \in FileResponses : FileRespond(i, r)

SpecFiles == Init /\ [][FilesNext]_vars

(***************************************************************************)
(* Properties of fetchFileContent.                                         *)
(***************************************************************************)
SettingsStored == localStorage[SETTINGS_KEY] # <<>>

\* C18: a file call made with no settings stored fails at once with "GitHub
\* not configured" and sends nothing; one made with settings stored sends
\* one request; a 404 makes it fail with "File not found: <path>" and every
\* other failure status with "Failed to fetch file: <status>"; no step of a
\* file call changes the cache item, and its outcome is the same whatever
\* the cache holds.
C18_FileContentFailures ==
    /\ []((last.by = "file" /\ last.ev = "fileStart" /\ ~SettingsStored)
          => (/\ output = Throw(Error("GitHub not configured"))
              /\ last.sent = <<>>))
    /\ []((last.by = "file" /\ last.ev = "fileStart" /\ SettingsStored)
          => (/\ output = Pending
              /\ Len(last.sent) = 1
              /\ input # <<>>
              /\ input[Len(input)].request = last.sent[1]))
    /\ []((last.by = "file" /\ last.status = 404)
          => output = Throw(Error("File not found: " \o last.path)))
    /\ []((last.by = "file" /\ last.status # 0 /\ last.status # 404
             /\ ~IsSuccessStatus(last.status))
          => output = Throw(Error("Failed to fetch file: " \o ToString(last.status))))
    /\ [][last'.by = "file"
          => (/\ CacheItem' = CacheItem
              /\ Len(input') > Len(input) => SettingsStored)]_vars

\* a file call failed on a 404 while a cache entry is stored
C18_Witness ==
    /\ last.by = "file"
    /\ last.status = 404
    /\ output = Throw(Error("File not found: src/train.py"))
    /\ CacheItem # <<>>

\* a file call was made with no settings stored
C18_WitnessNotConfigured ==
    /\ last.by = "file"
    /\ last.ev = "fileStart"
    /\ ~SettingsStored
    /\ output = Throw(Error("GitHub not configured"))

(***************************************************************************)
(* Properties of parseYaml.                                                *)
(***************************************************************************)
SourceLines == split(input[1].content.text, "\n")

\* the first non-blank content of the line is the dash marker
IsDashLine(line) == trim(line) = "-" \/ startsWith(trim(line), "- ")

DashLines == SelectSeq(SourceLines, IsDashLine)

\* what follows the marker on a dash line, and its key when it is key: value
AfterMarker(line) == trim(slice(trim(line), 1))
InlineKey(line) ==
    IF indexOf(AfterMarker(line), ":") > 1
    THEN trim(SubSeq(AfterMarker(line), 1, indexOf(AfterMarker(line), ":") - 1))
    ELSE ""
InlineValue(line) ==
    parseYamlValue(trim(slice(AfterMarker(line), indexOf(AfterMarker(line), ":"))))

\* C19: parseYaml returns one record per dash line, in order; the record of
\* a dash line with an inline key: value holds that field, and the record
\* of a dash line with nothing after the marker that is directly followed
\* by another dash line is empty.
C19_OneRecordPerDashLine ==
    Decoded("parseYaml")
    => (/\ Len(Returned) = Len(DashLines)
        /\ \A k \in 1..Len(DashLines) :
              /\ InlineKey(DashLines[k]) # ""
                 => (/\ k <= Len(Returned)
                     /\ Get(Returned[k], InlineKey(DashLines[k]))
                          = InlineValue(DashLines[k]))
        /\ \A n \in 1..(Len(SourceLines) - 1) :
              (/\ trim(SourceLines[n]) = "-"
               /\ IsDashLine(SourceLines[n + 1]))
              => \E k \in 1..Len(Returned) : Returned[k] = JObj(EmptyObject))

\* number of spaces the line starts with
LeadingSpaces(line) ==
    IF \A i \in 1..Len(line) : Char(line, i) = " " THEN Len(line)
    ELSE (CHOOSE i \in 1..Len(line) :
            /\ Char(line, i) # " "
            /\ \A j \in 1..(i - 1) : Char(line, j) = " ") - 1

\* the line opens a nested mapping; the key it opens
IsOpener(line) == trim(line) \in {"metrics:", "files:"}
OpenedKey(line) == SubSeq(trim(line), 1, Len(trim(line)) - 1)

\* a key: value line, its key and its value
IsKeyValue(line) ==
    /\ ~IsDashLine(line)
    /\ ~startsWith(trim(line), "#")
    /\ indexOf(trim(line), ":") > 1
    /\ trim(slice(trim(line), indexOf(trim(line), ":"))) # ""
KeyOf(line) == trim(SubSeq(trim(line), 1, indexOf(trim(line), ":") - 1))
ValueOf(line) == parseYamlValue(trim(slice(trim(line), indexOf(trim(line), ":"))))

\* line n lies in a record: a dash line comes before it
AfterDash(n) == \E m \in 1..(n - 1) : IsDashLine(SourceLines[m])

\* the nested mapping open at line n of a one-record text: the key opened
\* on the line before, or two lines before with a nested line of four
\* spaces in between, the opening line lying in the record ("" when none)
OpenAt(n) ==
    IF n >= 2 /\ IsOpener(SourceLines[n - 1]) /\ AfterDash(n - 1)
    THEN OpenedKey(SourceLines[n - 1])
    ELSE IF /\ n >= 3
            /\ IsOpener(SourceLines[n - 2])
            /\ AfterDash(n - 2)
            /\ IsKeyValue(SourceLines[n - 1])
            /\ LeadingSpaces(SourceLines[n - 1]) = 4
    THEN OpenedKey(SourceLines[n - 2])
    ELSE ""

\* line n went into the open nested mapping / into the record itself
InNested(n) ==
    /\ Get(Get(Returned[1], OpenAt(n)), KeyOf(SourceLines[n])) = ValueOf(SourceLines[n])
    /\ Get(Returned[1], KeyOf(SourceLines[n])) = JUndef
InRecord(n) ==
    /\ Get(Returned[1], KeyOf(SourceLines[n])) = ValueOf(SourceLines[n])
    /\ Get(Get(Returned[1], OpenAt(n)), KeyOf(SourceLines[n])) = JUndef

OneRecordText == Decoded("parseYaml") /\ Len(DashLines) = 1 /\ Len(Returned) = 1

RecordOf(n) == Cardinality({m \in 1..n : IsDashLine(SourceLines[m])})

\* lines n < m lie in the same record with no opener strictly between them
SameRecordNoOpener(n, m) ==
    /\ RecordOf(n) = RecordOf(m)
    /\ \A q \in (n + 1)..(m - 1) : ~IsOpener(SourceLines[q])

\* a key: value line of the record itself: fewer than four leading spaces
IsTopLevelKeyValue(line) == IsKeyValue(line) /\ LeadingSpaces(line) < 4

\* C21: every nested mapping that a line opens is attached under its key in
\* the record of that line; a nested line right after the opener is in it;
\* and after a top-level key: value line of the same record has closed it,
\* no later indented line of that record is assigned into it.
C21_NestedMappingIsClosed ==
    (Decoded("parseYaml") /\ Len(Returned) = Len(DashLines))
    => \A n \in 1..Len(SourceLines) :
          (IsOpener(SourceLines[n]) /\ RecordOf(n) >= 1)
          => (/\ Get(Returned[RecordOf(n)], OpenedKey(SourceLines[n])).t = "obj"
              /\ \A m \in (n + 1)..Len(SourceLines), p \in (n + 2)..Len(SourceLines) :
                    (/\ m < p
                     /\ SameRecordNoOpener(n, p)
                     /\ IsTopLevelKeyValue(SourceLines[m])
                     /\ IsKeyValue(SourceLines[p])
                     /\ LeadingSpaces(SourceLines[p]) >= 4)
                    => Get(Get(Returned[RecordOf(n)], OpenedKey(SourceLines[n])),
                           KeyOf(SourceLines[p])) = JUndef)

(***************************************************************************)
(* Properties of parseYamlValue.                                           *)
(***************************************************************************)
\* C22: every token is given the value of the first rule it meets: empty,
\* enclosed in matching quotes, number pattern, true / false, null / ~,
\* anything else unchanged.
C22_TokensAreClassified ==
    Decoded("parseYamlValue")
    => \A p \in TokenTable :
          p[1] = input[1].content.text => output = Return(p[2])

(***************************************************************************)
(* Properties of normalizeModel's defaults and optional groups.            *)
(***************************************************************************)
\* the supplied value is absent
Absent(v) == v \in {JUndef, JNull}

\* C23: the id is "model-" + index exactly when the supplied id is absent or
\* converts to the empty string, and the string conversion of the supplied id
\* otherwise; it is never the empty string.
C23_IdDefaultsOnlyWhenUnusable ==
    (Decoded("normalizeModel") /\ output.ok)
    => LET supplied == Get(input[1].item, "id")
           default == JStr("model-" \o ToString(input[1].index))
       IN  /\ Get(output.val, "id") =
                 IF Absent(supplied) \/ String(supplied) = ""
                 THEN default
                 ELSE JStr(String(supplied))
           /\ Get(output.val, "id") # JStr("")

\* the record has the key, whatever value it holds
HasKey(v, k) == v.t = "obj" /\ k \in DOMAIN v.v

\* values that JavaScript takes for false
Falsy == {JUndef, JNull, JBool(FALSE), JNum(0), JStr("")}

MetricFields == {"accuracy", "latency"}
FileFields ==
    {"modelCard", "trainingScript", "featureScript", "inferenceScript", "modelFile"}

\* inside a group, a field is the source value when that has the declared
\* type and is unset otherwise
FieldsFollowType(group, source, fields, type) ==
    \A f \in fields :
        Get(group, f) = IF Get(source, f).t = type THEN Get(source, f) ELSE JUndef

\* C24 as stated: a group is in the result if and only if the source record
\* has its key, and its fields follow the declared type.
C24_GroupsIffKeyPresent ==
    (Decoded("normalizeModel") /\ output.ok)
    => LET item == input[1].item
           metrics == Get(output.val, "metrics")
           files == Get(output.val, "files")
       IN  /\ metrics # JUndef <=> HasKey(item, "metrics")
           /\ files # JUndef <=> HasKey(item, "files")
           /\ metrics # JUndef
              => FieldsFollowType(metrics, Get(item, "metrics"), MetricFields, "num")
           /\ files # JUndef
              => FieldsFollowType(files, Get(item, "files"), FileFields, "str")

\* C24 (amended): a group is in the result if and only if the source record
\* holds a value under its key that is not null, false, 0 or the empty
\* string; inside the group accuracy / latency are set only when the source
\* value is a number and the five paths only when it is a string.
C24_GroupsIffValueTruthy ==
    (Decoded("normalizeModel") /\ output.ok)
    => LET item == input[1].item
           metrics == Get(output.val, "metrics")
           files == Get(output.val, "files")
       IN  /\ metrics # JUndef
              <=> (HasKey(item, "metrics") /\ Get(item, "metrics") \notin Falsy)
           /\ files # JUndef
              <=> (HasKey(item, "files") /\ Get(item, "files") \notin Falsy)
           /\ metrics # JUndef
              => FieldsFollowType(metrics, Get(item, "metrics"), MetricFields, "num")
           /\ files # JUndef
              => FieldsFollowType(files, Get(item, "files"), FileFields, "str")

\* a record with both groups: a path that is not a string is left unset next
\* to one that is kept, and accuracy 0 is kept next to a latency of null
C24_Witness ==
    /\ Decoded("normalizeModel") /\ output.ok
    /\ HasKey(input[1].item, "files")
    /\ Get(Get(input[1].item, "files"), "featureScript") = JBool(TRUE)
    /\ Get(Get(output.val, "files"), "featureScript") = JUndef
    /\ Get(Get(output.val, "files"), "inferenceScript") = JStr("run.py")
    /\ Get(Get(output.val, "metrics"), "accuracy") = JNum(0)
    /\ Get(Get(output.val, "metrics"), "latency") = JUndef

(***************************************************************************)
(* The choice of decoder in parseConfigFile.                               *)
(***************************************************************************)
\* C25: the decoder is chosen by the path alone.  Under a path ending in
\* .yaml or .yml the call always returns a list, and JSON text is read as
\* YAML there (it has no record marker, so the list is empty); under every
\* other path the text goes to the JSON parser, which refuses YAML text and
\* decodes a JSON list element by element.
C25_DecoderChosenByExtension ==
    Decoded("parseConfigFile")
    => LET path == input[1].path
           json == input[1].content.json
       IN  /\ IsYamlPath(path)
              => (/\ output.ok
                  /\ output.val.t = "arr"
                  /\ output.err # MalformedConfig
                  /\ json # NotJson => output = Return(JArr(<<>>)))
           /\ (~IsYamlPath(path) /\ json = NotJson)
              => (~output.ok /\ output.err.name = "SyntaxError")
           /\ (~IsYamlPath(path) /\ json # NotJson /\ json.t = "arr"
               /\ \A i \in 1..Len(json.v) : ~IsNullish(json.v[i]))
              => (output.ok /\ Len(Returned) = Len(json.v))

\* a JSON list of one record, stored under a .yml path, decodes to no record
C25_Witness ==
    /\ Decoded("parseConfigFile")
    /\ input[1].path = "config.yml"
    /\ input[1].content.json = JArr(<<RecordFoo>>)
    /\ output = Return(JArr(<<>>))

\* YAML text under a path that does not end in .yaml or .yml is refused by
\* the JSON parser
C25_WitnessOtherPath ==
    /\ Decoded("parseConfigFile")
    /\ input[1].path = "models.YAML"
    /\ input[1].content.json = NotJson
    /\ ~output.ok

(***************************************************************************)
(* The App against one repository host: what a request is answered with    *)
(* is decided by its URL, which names the repository, the config path and  *)
(* the branch.                                                             *)
(***************************************************************************)
\* the file behind a URL, if there is one
Repository(url) ==
    CASE url = RequestOf(SettingsA).url ->
            <<JsonFile(JArr(<<RecordFoo, RecordBar>>))>>
      [] url = RequestOf(SettingsAdev).url ->
            <<YamlFile("- id: d1\n  name: Dev\n  createdAt: 2024\n  updatedAt: 2024")>>
      [] OTHER -> <<>>

\* the response of the host to a request
Served(request) ==
    IF Repository(request.url) = <<>>
    THEN [status |-> 404, content |-> ErrorBody]
    ELSE [status |-> 200, content |-> Repository(request.url)[1]]

RepositoryNext ==
    \/ CanCall /\ Mount
    \/ CanCall /\ handleRefresh
    \/ \E st \in FormSettings : CanCall /\ handleSubmit(st)
    \/ \E st \in FormSettings : CanCall /\ handleTestConnection(st)
    \/ handleDisconnect
    \/ \E i \in 1..Len(calls) : Respond(i, Served(calls[i].request))
    \/ Reload
    \/ \E d \in {1, CACHE_TTL} : Tick(d)

SpecRepository == Init /\ [][RepositoryNext]_vars

\* the list decoded from the file that the settings name
ListOf(settings) ==
    parseConfigFile(Repository(RequestOf(settings).url)[1], settings.configPath)

\* C26: every list a fetch for settings S returns, from the cache or from
\* the network, is the list of the file at S.configPath on S.branch of the
\* repository of S.
C26_ListComesFromTheSettingsFile ==
    (last.ev \in {"hit", "ok"})
    => (/\ Repository(RequestOf(last.settings).url) # <<>>
        /\ ListOf(last.settings).ok
        /\ SameValue(last.result.val, ListOf(last.settings).val))

(***************************************************************************)
(* Invalidation and disconnection while a fetch is suspended.              *)
(***************************************************************************)
\* the latest step was a handler that ran clearSettings, saveSettings or
\* invalidateCache
InvalidatedNow == last.by \in {"disconnect", "refresh", "submit", "retry", "test"}

\* the calls that were suspended before that handler ran
OlderCalls ==
    IF last.ev = "miss" THEN SubSeq(calls, 1, Len(calls) - 1) ELSE calls

\* the next step is the completion of the oldest suspended call
OldestSettles ==
    /\ last'.by = "response"
    /\ calls' = Tail(calls)
    /\ Len(calls) = 2 => calls[1] # calls[2]

\* C27: when a fetch that was suspended before an invalidation completes,
\* it leaves the cache absent.
C27_OlderFetchLeavesCacheAbsent ==
    [][(/\ InvalidatedNow
        /\ localStorage[CACHE_KEY] = <<>>
        /\ OlderCalls # <<>>
        /\ OldestSettles)
       => localStorage'[CACHE_KEY] = <<>>]_vars

\* no loadModels call is suspended
LoadsFinished ==
    mounted /\ \A i \in 1..Len(calls) : calls[i].caller # "loadModels"

\* what loadModels leaves for the settings that are stored: the local list
\* when there are none, the list of their file, or the failure of the fetch
OutcomeOfStoredSettings ==
    LET stored == getSettings(localStorage)
    IN  IF stored = <<>>
        THEN connectionStatus = "disconnected" /\ models = initialModels
        ELSE IF Repository(RequestOf(stored[1]).url) = <<>>
        THEN connectionStatus = "error" /\ models = initialModels
        ELSE /\ connectionStatus = "connected"
             /\ SameValue(models, ListOf(stored[1]).val)

\* C28: "connected" is shown only with settings stored and with the list
\* fetched for them; and once every loadModels call has finished the App
\* shows the outcome of the call issued last, which is the call for the
\* settings that are stored.
C28_ConnectedToStoredSettings ==
    /\ connectionStatus = "connected"
       => (/\ getSettings(localStorage) # <<>>
           /\ Repository(RequestOf(getSettings(localStorage)[1]).url) # <<>>
           /\ SameValue(models, ListOf(getSettings(localStorage)[1]).val))
    /\ LoadsFinished => OutcomeOfStoredSettings

(***************************************************************************)
(* Termination of loadModels.  Every request that is on the network is     *)
(* answered in the end (in any order), and the mount effect runs once the  *)
(* component is rendered.                                                  *)
(***************************************************************************)
\* the request that has waited longest is answered: with this step taken
\* in the end, no request waits forever
OldestAnswered == \E r \in ConcurrentResponses : Respond(1, r)

SpecLive ==
    /\ Init
    /\ [][ConcurrentNext]_vars
    /\ WF_vars(OldestAnswered)
    /\ WF_vars(Mount)

\* a loadModels call is suspended on its fetch
LoadInFlight == \E i \in 1..Len(calls) : calls[i].caller = "loadModels"

\* loading is over
Finished ==
    ~isLoading /\ connectionStatus \in {"connected", "error", "disconnected"}

\* every suspended loadModels call is followed by a state where loading is
\* over
LoadingEnds == LoadInFlight ~> Finished

\* C29: every loadModels call finishes with isLoading false and the status
\* one of connected, error, disconnected; and isLoading is true whenever a
\* loadModels call is in flight.
C29_LoadingEndsAndCoversCalls ==
    /\ LoadingEnds
    /\ [](LoadInFlight => isLoading)

(***************************************************************************)
(* Lines that parseYaml passes over.                                       *)
(***************************************************************************)
RECURSIVE JoinLines(_)
JoinLines(lines) ==
    IF lines = <<>> THEN ""
    ELSE IF Len(lines) = 1 THEN lines[1]
    ELSE lines[1] \o "\n" \o JoinLines(Tail(lines))

\* the lines from the first dash line on; none when there is no dash line
FromFirstDash(lines) ==
    IF \E n \in 1..Len(lines) : IsDashLine(lines[n])
    THEN SubSeq(lines,
                CHOOSE n \in 1..Len(lines) :
                    /\ IsDashLine(lines[n])
                    /\ \A m \in 1..(n - 1) : ~IsDashLine(lines[m]),
                Len(lines))
    ELSE <<>>

\* a dash line, or a line that holds a colon
Significant(line) == IsDashLine(line) \/ indexOf(line, ":") # 0

\* C30: the records are those of the text cut down to the lines from its
\* first dash line on, and those of the text with every non-dash line that
\* holds no colon removed; a text with no dash line gives no record.
C30_OnlyLinesFromFirstDash ==
    Decoded("parseYaml")
    => (/\ output = Return(parseYaml(JoinLines(FromFirstDash(SourceLines))))
        /\ output = Return(parseYaml(JoinLines(SelectSeq(SourceLines, Significant))))
        /\ DashLines = <<>> => output = Return(JArr(<<>>)))

\* a list under a models: key, after two other header lines
C30_Witness ==
    /\ Decoded("parseYaml")
    /\ SourceLines = <<"version: 2", "name: registry", "models:", "- id: a">>
    /\ output = Return(JArr(<<JObj([id |-> JStr("a")])>>))

\* a line without a colon between two fields of a record
C30_WitnessNoColon ==
    /\ Decoded("parseYaml")
    /\ SourceLines = <<"- id: a", "stray words", "  name: Foo", "---", "- id: b">>
    /\ output = Return(JArr(<<JObj([id |-> JStr("a"), name |-> JStr("Foo")]),
                              JObj([id |-> JStr("b")])>>))

====
